---------------------------- MODULE Spec2Model ----------------------------
(***************************************************************************)
(* Model of django-h3d: the H3 "distilled" index codec (h3d/h3d.py) and    *)
(* the H3DModel mixin (h3d/models.py).                                     *)
(*                                                                         *)
(* A Python int (unbounded, non-negative) is represented by the set of the *)
(* positions of its 1 bits: 5 = {0, 2}.  Then  a & b  is intersection,     *)
(* a | b  is union,  a & ~b  is set difference,  a << k  adds k to every   *)
(* position, and  a <= b  compares the highest differing bit.              *)
(***************************************************************************)
EXTENDS Integers, FiniteSets, Sequences, TLC

VARIABLES
    \* the codec's calls
    n,       \* the input word
    op,      \* the function called last ("input": none yet)
    via,     \* where the operand of that call came from
    arg,     \* the operand of that call
    res,     \* its res argument (None when left out)
    probe,   \* the stored index a lookup tries
    out,     \* the call's result(s)
    outRes,  \* the result of h3d_resolution
    hit,     \* the result of a lookup
    \* the model's table
    rows,    \* the persisted records of an H3DModel, by primary key
    call,    \* the arguments of the last save or filter_h3d_around
    found    \* the primary keys filter_h3d_around returned

codecVars == <<n, op, via, arg, res, probe, out, outRes, hit>>
modelVars == <<rows, call, found>>
vars == <<n, op, via, arg, res, probe, out, outRes, hit, rows, call, found>>

---------------------------------------------------------------------------
(* Python integer arithmetic on bit sets *)

\* The exception a negative shift count raises, as a value no int equals.
ValueError == {-1}

\* Python's None, and an optional argument that is given.
None == {}
Some(v) == {v}
ValueOf(o) == CHOOSE v \in o : TRUE

\* The bit set of a small non-negative machine integer.
IntToBits(k) == {i \in 0..k : (k \div (2 ^ i)) % 2 = 1}

SetMax(S) == CHOOSE m \in S : \A e \in S : e <= m
SetMin(S) == CHOOSE m \in S : \A e \in S : m <= e

\* a << k ; Python raises ValueError("negative shift count") for k < 0.
Shl(a, k) == IF k < 0 THEN ValueError ELSE {i + k : i \in a}

\* a - 1 for a > 0
Dec(a) == (a \ {SetMin(a)}) \cup (0..(SetMin(a) - 1))

BitAnd(a, b) == a \cap b
BitOr(a, b) == a \cup b
\* a & ~b for non-negative a and b
BitAndNot(a, b) == a \ b

\* a <= b on non-negative ints
Le(a, b) == a = b \/ SetMax((a \ b) \cup (b \ a)) \in b

---------------------------------------------------------------------------
(* h3d/h3d.py: constants *)

H3_RES_OFFSET == 52
H3_RES_MASK == Shl(IntToBits(15), H3_RES_OFFSET)
H3_DIGIT_LEN == 3
H3_DIGIT_MASK == Dec(Shl(IntToBits(1), H3_DIGIT_LEN))
H3_MAX_RES == 15
H3_UNUSED == H3_DIGIT_MASK

---------------------------------------------------------------------------
(* h3d/h3d.py: functions *)

h3h_to_h3d(h) == BitAndNot(h, H3_RES_MASK)

\* The loop of h3d_resolution: the value of r when the loop is left, by the
\* break at the first digit group that is not all ones, or by exhaustion of
\* range(H3_MAX_RES + 1) with r = H3_MAX_RES.
RECURSIVE ResolutionLoop(_, _)
ResolutionLoop(d, r) ==
    LET mask == Shl(H3_DIGIT_MASK, r * H3_DIGIT_LEN)
    IN  IF BitAnd(d, mask) = mask /\ r < H3_MAX_RES
        THEN ResolutionLoop(d, r + 1)
        ELSE r

\* Mutant: the loop runs over range(H3_MAX_RES), one digit group short
h3d_resolution_short(d) ==
    H3_MAX_RES - (IF ResolutionLoop(d, 0) = H3_MAX_RES
                  THEN H3_MAX_RES - 1 ELSE ResolutionLoop(d, 0))

h3d_resolution(d) == H3_MAX_RES - ResolutionLoop(d, 0)

\* Mutant: the resolution is OR'ed in without the shift to its field
h3d_to_h3h_unshifted(d) ==
    BitOr(h3h_to_h3d(d), IntToBits(h3d_resolution(d)))

h3d_to_h3h(d) ==
    BitOr(h3h_to_h3d(d), Shl(IntToBits(h3d_resolution(d)), H3_RES_OFFSET))

\* Mutant: the mask without its "- 1"
h3d_unused_mask_power(r) ==
    Shl(IntToBits(1), (H3_MAX_RES - r) * H3_DIGIT_LEN)

\* Mutant: the mask one digit group too wide
h3d_unused_mask_wide(r) ==
    LET one == Shl(IntToBits(1), (H3_MAX_RES + 1 - r) * H3_DIGIT_LEN)
    IN  IF one = ValueError THEN ValueError ELSE Dec(one)

h3d_unused_mask(r) ==
    LET one == Shl(IntToBits(1), (H3_MAX_RES - r) * H3_DIGIT_LEN)
    IN  IF one = ValueError THEN ValueError ELSE Dec(one)

\* Mutant: the default parent resolution is the index's own
h3d_parent_same(d0, r) ==
    LET d    == h3h_to_h3d(d0)
        rr   == IF r = None THEN h3d_resolution(d) ELSE ValueOf(r)
        mask == h3d_unused_mask(rr)
    IN  IF mask = ValueError THEN ValueError ELSE BitOr(d, mask)

\* r is None or Some(resolution)
h3d_parent(d0, r) ==
    LET d    == h3h_to_h3d(d0)
        rr   == IF r = None THEN h3d_resolution(d) - 1 ELSE ValueOf(r)
        mask == h3d_unused_mask(rr)
    IN  IF mask = ValueError THEN ValueError ELSE BitOr(d, mask)

\* Mutant: the lower bound is the index itself, its unused bits kept
h3d_range_point(d0, r) ==
    LET d    == h3h_to_h3d(d0)
        rr   == IF r = None THEN h3d_resolution(d) ELSE ValueOf(r)
        mask == h3d_unused_mask(rr)
    IN  IF mask = ValueError THEN <<ValueError>>
        ELSE <<d, BitOr(d, mask)>>

\* r is None or Some(resolution); the result is <<min, max>>
h3d_range(d0, r) ==
    LET d    == h3h_to_h3d(d0)
        rr   == IF r = None THEN h3d_resolution(d) ELSE ValueOf(r)
        mask == h3d_unused_mask(rr)
    IN  IF mask = ValueError THEN <<ValueError>>
        ELSE <<BitAndNot(d, mask), BitOr(d, mask)>>

\* Mutant: the upper bound is exclusive
InRangeExclusive(v, range) == Le(range[1], v) /\ Le(v, range[2]) /\ v # range[2]

\* The SQL lookup h3d__range=(lo, hi): lo <= v AND v <= hi (BETWEEN)
InRange(v, range) == Le(range[1], v) /\ Le(v, range[2])

---------------------------------------------------------------------------
(* Inputs *)

\* Bounds of the model
MaxSampleDigit == 1
OutRange == 2

\* Digit values the sampled cells are built from: 0..MaxSampleDigit and the
\* largest real digit, 6
SampleDigits == (0..MaxSampleDigit) \cup {6}

\* Bit patterns outside the resolution and digit fields: mode 1 with base
\* cell 21, mode 1 with base cell 7 (bits 45..47 all ones), and every bit set
CellHigh == {{59, 45, 47, 49}, {59, 45, 46, 47}}
AnyHigh == CellHigh \cup {(45..51) \cup (56..63)}

\* The 3 bits of digit position i (1 = coarsest .. 15 = finest)
DigitShift(i) == (H3_MAX_RES - i) * H3_DIGIT_LEN
PutDigit(v, i) == {b + DigitShift(i) : b \in IntToBits(v)}
GetDigit(w, i) ==
    LET s == DigitShift(i)
    IN  (IF s \in w THEN 1 ELSE 0) + (IF s + 1 \in w THEN 2 ELSE 0)
        + (IF s + 2 \in w THEN 4 ELSE 0)
GetResField(w) ==
    (IF 52 \in w THEN 1 ELSE 0) + (IF 53 \in w THEN 2 ELSE 0)
    + (IF 54 \in w THEN 4 ELSE 0) + (IF 55 \in w THEN 8 ELSE 0)

\* The word with high bits hi, resolution field f, digits 1..r-1 equal to a,
\* digit r equal to b, and the digits finer than r unused
Word(hi, f, r, a, b) ==
    hi \cup {52 + i : i \in IntToBits(f)}
       \cup UNION {PutDigit(IF i < r THEN a ELSE IF i = r THEN b ELSE 7, i)
                   : i \in 1..H3_MAX_RES}

Resolutions == 0..H3_MAX_RES

\* Native indexes of cells, as h3.geo_to_h3 / h3.string_to_h3 produce them
NativeCells ==
    {Word(hi, r, r, a, b) : hi \in CellHigh, r \in Resolutions,
                            a \in SampleDigits, b \in SampleDigits}

\* Distilled indexes of cells
DistilledCells ==
    {Word(hi, 0, r, a, b) : hi \in CellHigh, r \in Resolutions,
                            a \in SampleDigits, b \in SampleDigits}

\* Other 64-bit words: any digit may be 7, the resolution field is arbitrary
OtherWords ==
    {Word(hi, f, r, a, b) : hi \in AnyHigh, f \in {0, 9, 15}, r \in Resolutions,
                            a \in SampleDigits \cup {7},
                            b \in SampleDigits \cup {7}}

Inputs == NativeCells \cup DistilledCells \cup OtherWords

\* Values passed as the res argument: in the domain and OutRange beyond it
ResArgs == {None} \cup {Some(r) : r \in (0 - OutRange)..(H3_MAX_RES + OutRange)}

---------------------------------------------------------------------------
(* The h3 library, as h3d/models.py calls it.  A cell's hex string is     *)
(* represented by the native index it spells.                              *)

SetDigit(w, i, v) ==
    (w \ {DigitShift(i), DigitShift(i) + 1, DigitShift(i) + 2}) \cup PutDigit(v, i)
SetResField(w, f) == (w \ (52..55)) \cup {52 + i : i \in IntToBits(f)}

h3_to_parent(c) ==
    SetResField(SetDigit(c, GetResField(c), 7), GetResField(c) - 1)
h3_to_children(p) ==
    {SetResField(SetDigit(p, GetResField(p) + 1, j), GetResField(p) + 1)
        : j \in 0..6}

\* h3.geo_to_h3(lat, lon, r): the point (lat, lon) lies in the resolution 15
\* cell whose digits 1..14 are DigitOf(lat) and whose digit 15 is
\* DigitOf(lon), and in that cell's ancestors.
DigitOf(c) == (c + 6) % 7
geo_to_h3(lat, lon, r) ==
    Word({59, 45, 47, 49}, r, r, DigitOf(lat),
         IF r = H3_MAX_RES THEN DigitOf(lon) ELSE DigitOf(lat))

\* h3.k_ring(c, k): the rings the library may return, each a set of cells of
\* c's resolution that holds c.  Around a centre child the 1-ring is the
\* seven children of its parent; elsewhere it reaches into another parent.
k_ring(c, k) ==
    IF k = 0 \/ GetResField(c) = 0 THEN {{c}}
    ELSE LET r == GetResField(c)
             near == {SetDigit(c, r, j) : j \in 1..3}
             uncle == SetDigit(c, r - 1, (GetDigit(c, r - 1) + 1) % 7)
             far == IF r >= 2 THEN {SetDigit(uncle, r, j) : j \in 4..6} ELSE {}
         IN  {h3_to_children(h3_to_parent(c)), {c} \cup near \cup far}

\* h3.compact(cells): every complete set of seven children is replaced by
\* its parent, until none is left
CompactStep(cells) ==
    LET parents == {h3_to_parent(c) : c \in {x \in cells : GetResField(x) > 0}}
        full == {p \in parents : h3_to_children(p) \subseteq cells}
    IN  (cells \ UNION {h3_to_children(p) : p \in full}) \cup full

RECURSIVE compact(_)
compact(cells) ==
    IF CompactStep(cells) = cells THEN cells ELSE compact(CompactStep(cells))

---------------------------------------------------------------------------
(* h3d/h3d.py and h3d/models.py: the model mixin *)

h3s_to_h3d(s) == h3h_to_h3d(s)

IGNORE_COORDINATE_ZERO == TRUE

\* lat, lon: None or Some(number); the LATLON_FIELDS branch
get_latlon(lat, lon) ==
    IF lat = Some(0) /\ lon = Some(0) /\ IGNORE_COORDINATE_ZERO
    THEN <<None, None>>
    ELSE <<lat, lon>>

calc_h3d(lat, lon, r) == h3s_to_h3d(geo_to_h3(lat, lon, r))

\* None or Some(distilled index)
get_h3d(lat, lon, r) ==
    LET ll == get_latlon(lat, lon)
    IN  IF ll[1] # None /\ ll[2] # None
        THEN Some(calc_h3d(ValueOf(ll[1]), ValueOf(ll[2]), r))
        ELSE None

\* The primary keys a table can hold, and the values of a coordinate column
RecordIds == {1, 2}
Coordinates == {None, Some(0), Some(1)}

NoRows == [i \in {} |-> {}]
NoCall == [kind |-> "none"]

\* A queryset is the set of primary keys it matches; bool(queryset) is
\* whether it matches any.
Truthy(queryset) == queryset # None /\ ValueOf(queryset) # {}

\* filter_h3d_around after h3.k_ring has returned ring: the keys of the rows
\* of table that the filtered queryset yields
filter_h3d_around(table, ring, queryset) ==
    LET cells == compact(ring)
        d_cells == {h3s_to_h3d(c) : c \in cells}
        filters == {h3d_range(c, None) : c \in d_cells}
        base == IF ~Truthy(queryset) THEN DOMAIN table ELSE ValueOf(queryset)
    IN  {pk \in base :
            /\ table[pk].h3d # None
            /\ \E f \in filters : InRange(ValueOf(table[pk].h3d), f)}

\* The columns a save writes: all of them, or update_fields
AllFields == {"lat", "lon", "h3d"}
UpdateFields ==
    {None} \cup {Some(fs) : fs \in {{}, {"lat"}, {"lon"}, {"lat", "lon"},
                                     {"h3d"}, {"lat", "lon", "h3d"}}}

\* Model.save() of an instance with coordinates lat, lon: h3d_pre_save sets
\* instance.h3d, then the row's columns named by fields are written
Written(old, lat, lon, fields) ==
    LET inst == [lat |-> lat, lon |-> lon, h3d |-> get_h3d(lat, lon, H3_MAX_RES)]
    IN  [f \in AllFields |-> IF f \in fields THEN inst[f] ELSE old[f]]

\* objects.create(lat=lat, lon=lon): pre_save, then INSERT of every column
Create ==
    /\ call.kind = "none"
    /\ Cardinality(DOMAIN rows) < Cardinality(RecordIds)
    /\ \E lat \in Coordinates, lon \in Coordinates :
        LET pk == Cardinality(DOMAIN rows) + 1
            row == Written([f \in AllFields |-> None], lat, lon, AllFields)
        IN  rows' = [i \in DOMAIN rows \cup {pk} |->
                        IF i = pk THEN row ELSE rows[i]]
    /\ call' = NoCall
    /\ found' = {}
    /\ UNCHANGED codecVars

\* instance.lat, instance.lon = lat, lon; instance.save(update_fields=uf).
\* Django returns before the pre_save signal when update_fields is empty, and
\* writes only the named columns when it is given.
Save ==
    /\ call.kind = "none"
    /\ \E pk \in DOMAIN rows, lat \in Coordinates, lon \in Coordinates,
          uf \in UpdateFields :
        LET fields == IF uf = None THEN AllFields ELSE ValueOf(uf)
        IN  rows' = [rows EXCEPT ![pk] = Written(rows[pk], lat, lon, fields)]
    /\ call' = NoCall
    /\ found' = {}
    /\ UNCHANGED codecVars

\* Resolutions filter_h3d_around is called with
FilterResolutions == {1, 14, 15}

\* Querysets passed to filter_h3d_around
Querysets == {None, Some({}), Some({1})}

Filter ==
    /\ call.kind = "none"
    /\ \E lat \in {0, 1}, lon \in {0, 1}, r \in FilterResolutions,
          k \in {0, 1}, queryset \in Querysets :
        \E ring \in k_ring(geo_to_h3(lat, lon, r), k) :
            /\ queryset # None => ValueOf(queryset) \subseteq DOMAIN rows
            /\ call' = [kind |-> "filter", lat |-> lat, lon |-> lon, res |-> r,
                        k_distance |-> k, ring |-> ring, queryset |-> queryset]
            /\ found' = filter_h3d_around(rows, ring, queryset)
    /\ UNCHANGED rows
    /\ UNCHANGED codecVars

InitModel ==
    /\ n = {} /\ op = "input" /\ via = "input" /\ arg = {} /\ res = None
    /\ probe = {} /\ out = <<>> /\ outRes = -1 /\ hit = FALSE
    /\ rows = NoRows
    /\ call = NoCall
    /\ found = {}

NextModel ==
    \/ Create
    \/ Save
    \/ Filter

SpecModel == InitModel /\ [][NextModel]_vars

---------------------------------------------------------------------------
(* The codec as a state machine: an input word n, and calls of the functions *)
(* on it or on the result of the call before                                *)

Init ==
    /\ n \in Inputs
    /\ op = "input"
    /\ via = "input"
    /\ arg = n
    /\ res = None
    /\ probe = {}
    /\ out = <<n>>
    /\ outRes = -1
    /\ hit = FALSE
    /\ rows = NoRows
    /\ call = NoCall
    /\ found = {}

\* What a call may be applied to: the input, or the result of the last call
\* when that was a distillation or a default parent
Operands ==
    {<<n, "input">>} \cup
    (IF op = "h3h_to_h3d" \/ (op = "h3d_parent" /\ res = None /\ out[1] # ValueError)
     THEN {<<out[1], op>>} ELSE {})

Call_h3h_to_h3d ==
    /\ UNCHANGED modelVars
    /\ op = "input"
    /\ op' = "h3h_to_h3d"
    /\ via' = "input" /\ arg' = n
    /\ out' = <<h3h_to_h3d(n)>>
    /\ UNCHANGED <<n, res, probe, outRes, hit>>

Call_h3d_resolution ==
    /\ UNCHANGED modelVars
    /\ \E o \in Operands :
        /\ op \in {"input", "h3h_to_h3d"}
        /\ op' = "h3d_resolution"
        /\ arg' = o[1] /\ via' = o[2]
        /\ outRes' = h3d_resolution(o[1])
        /\ out' = <<>>
        /\ res' = None
        /\ UNCHANGED <<n, probe, hit>>

Call_h3d_to_h3h ==
    /\ UNCHANGED modelVars
    /\ \E o \in Operands :
        /\ op \in {"input", "h3h_to_h3d"}
        /\ op' = "h3d_to_h3h"
        /\ arg' = o[1] /\ via' = o[2]
        /\ out' = <<h3d_to_h3h(o[1])>>
        /\ res' = None
        /\ UNCHANGED <<n, probe, outRes, hit>>

Call_h3d_unused_mask ==
    /\ UNCHANGED modelVars
    /\ op = "input"
    /\ \E r \in ResArgs \ {None} :
        /\ op' = "h3d_unused_mask"
        /\ res' = r
        /\ out' = <<h3d_unused_mask(ValueOf(r))>>
    /\ UNCHANGED <<n, via, arg, probe, outRes, hit>>

Call_h3d_parent ==
    /\ UNCHANGED modelVars
    /\ \E o \in Operands, r \in ResArgs :
        /\ op \in {"input", "h3h_to_h3d"}
        /\ op' = "h3d_parent"
        /\ arg' = o[1] /\ via' = o[2]
        /\ res' = r
        /\ out' = <<h3d_parent(o[1], r)>>
        /\ UNCHANGED <<n, probe, outRes, hit>>

Call_h3d_range ==
    /\ UNCHANGED modelVars
    /\ \E o \in Operands, r \in ResArgs :
        /\ op \in {"input", "h3h_to_h3d"} \/ (op = "h3d_parent" /\ res = None)
        /\ op' = "h3d_range"
        /\ arg' = o[1] /\ via' = o[2]
        /\ res' = r
        /\ out' = h3d_range(o[1], r)
        /\ UNCHANGED <<n, probe, outRes, hit>>

\* The range lookup of filter_h3d_around on one stored index: the range of a
\* distilled cell, matched against the distilled index v of a cell
Lookup ==
    /\ UNCHANGED modelVars
    /\ op = "h3h_to_h3d"
    /\ n \in NativeCells
    /\ \E v \in DistilledCells :
        /\ op' = "lookup"
        /\ arg' = out[1] /\ via' = op
        /\ probe' = v
        /\ hit' = InRange(v, h3d_range(out[1], None))
    /\ UNCHANGED <<n, res, out, outRes>>

Next ==
    \/ Call_h3h_to_h3d
    \/ Call_h3d_resolution
    \/ Call_h3d_to_h3h
    \/ Call_h3d_unused_mask
    \/ Call_h3d_parent
    \/ Call_h3d_range
    \/ Lookup

Spec == Init /\ [][Next]_vars

---------------------------------------------------------------------------
(* Reading a word's fields, independently of the functions above *)

\* The positions outside the resolution field and the 45-bit digit field
IsHighBit(i) == i >= 45 /\ ~(i \in 52..55)
HighBits(w) == {i \in w : IsHighBit(i)}

\* The number of finest digit groups of w that are all ones
TrailingUnused(w) ==
    Cardinality({k \in 1..H3_MAX_RES :
                    \A j \in k..H3_MAX_RES : GetDigit(w, j) = 7})

\* The resolution a word's digits stand for
CellRes(w) == H3_MAX_RES - TrailingUnused(w)

\* Cell x (distilled) is cell d (distilled, of resolution r) or a descendant
SelfOrDescendant(x, d, r) ==
    /\ {i \in x : i >= 45} = {i \in d : i >= 45}
    /\ \A i \in 1..r : GetDigit(x, i) = GetDigit(d, i)

---------------------------------------------------------------------------
(* Claims about the codec, under Spec *)

\* C1: native -> distilled -> native is the identity on the native index of
\* a cell: restoring recovers the resolution field that distilling cleared.
C1_RoundTrip ==
    (op = "h3d_to_h3h" /\ via = "h3h_to_h3d" /\ n \in NativeCells)
        => out[1] = n

C1_Witness ==
    /\ op = "h3d_to_h3h" /\ via = "h3h_to_h3d" /\ n \in NativeCells
    /\ GetResField(n) = 9 /\ GetResField(arg) = 0
    /\ out[1] = n

\* C2: the default range of a cell's distilled index holds the distilled
\* index of a cell (of any resolution) exactly when that cell is the cell
\* itself or one of its descendants.
C2_RangeIsSubtree ==
    op = "lookup" => (hit <=> SelfOrDescendant(probe, arg, GetResField(n)))

C2_Witness ==
    /\ op = "lookup" /\ hit
    /\ GetResField(n) = 3 /\ CellRes(probe) = 15
    /\ GetDigit(probe, 15) = 0

\* C3: the default parent p of a distilled index d of resolution r > 0 is
\* the upper bound of the range at resolution r - 1, of p and of d alike,
\* and d lies in that range.
C3_ParentBoundsRange ==
    (/\ op = "h3d_range" /\ n \in DistilledCells /\ CellRes(n) > 0
     /\ res = Some(CellRes(n) - 1))
        => /\ via = "h3d_parent" => out[2] = arg
           /\ via = "input" => out[2] = h3d_parent(n, None)
           /\ via \in {"h3d_parent", "input"} => Le(out[1], n) /\ Le(n, out[2])

C3_Witness ==
    /\ op = "h3d_range" /\ via = "h3d_parent" /\ n \in DistilledCells
    /\ CellRes(n) = 5 /\ res = Some(4)
    /\ out[2] = arg /\ arg # n /\ Le(out[1], n) /\ Le(n, out[2])

\* C4 as claimed: the default range of a distilled index d is (d, d).
C4_SelfRangeIsPoint ==
    (op = "h3d_range" /\ res = None /\ arg \in DistilledCells)
        => out = <<arg, arg>>

\* C4 amended: the default range of a distilled index d is (d with the
\* digit bits finer than its resolution cleared, d); the lower bound is d
\* only at resolution 15.
C4_SelfRange ==
    (op = "h3d_range" /\ res = None /\ BitAnd(arg, 52..55) = {})
        => /\ out[2] = arg
           /\ out[1] = arg \ (0..(DigitShift(CellRes(arg)) - 1))
           /\ (out[1] = arg <=> CellRes(arg) = H3_MAX_RES)

C4_Witness ==
    /\ op = "h3d_range" /\ res = None /\ arg \in DistilledCells
    /\ CellRes(arg) = 4
    /\ out[2] = arg /\ out[1] # arg

\* C7: the resolution of a word whose k finest digit groups are all ones
\* and whose next coarser group (if any) is not is 15 - k, whatever its
\* other bits; the result is in 0..15.
C7_ResolutionRecovery ==
    op = "h3d_resolution" =>
        /\ outRes \in 0..15
        /\ \A k \in 0..15 :
             (/\ \A j \in (16 - k)..15 : GetDigit(arg, j) = 7
              /\ k < 15 => GetDigit(arg, 15 - k) # 7)
                 => outRes = 15 - k

C7_Witness ==
    /\ op = "h3d_resolution" /\ outRes = 0
    /\ \A j \in 1..15 : GetDigit(arg, j) = 7
    /\ {45, 46, 47, 63} \subseteq arg

\* C8 as claimed: h3d_unused_mask, h3d_parent and h3d_range return a number
\* for every res, in 0..15 or not, and never signal an error.
C8_NoError ==
    op \in {"h3d_unused_mask", "h3d_parent", "h3d_range"}
        => out[1] # ValueError

\* The results of the last call
Results == {out[i] : i \in 1..Len(out)}

\* C9 as claimed: the results of h3h_to_h3d, h3d_to_h3h, h3d_parent and
\* h3d_range (res default or in 0..15) have the input's bits outside the
\* resolution field and the digit field.
C9_HighBitsKept ==
    (/\ op \in {"h3h_to_h3d", "h3d_to_h3h", "h3d_parent", "h3d_range"}
     /\ res \in {None} \cup {Some(r) : r \in Resolutions})
        => \A v \in Results : HighBits(v) = HighBits(arg)

\* C9 amended: as claimed, except that the default parent is taken of an
\* input of resolution 1..15 only (for an input of resolution 0 the default
\* parent resolution is -1 and the mask sets bits 45..47).
C9_HighBitsKeptAbove0 ==
    (/\ op \in {"h3h_to_h3d", "h3d_to_h3h", "h3d_parent", "h3d_range"}
     /\ res \in {None} \cup {Some(r) : r \in Resolutions}
     /\ ~(op = "h3d_parent" /\ res = None /\ CellRes(arg) = 0))
        => \A v \in Results : HighBits(v) = HighBits(arg)

C9_Witness ==
    /\ op = "h3d_parent" /\ res = None /\ CellRes(arg) = 1
    /\ GetResField(arg) = 9 /\ ~(46 \in arg)
    /\ HighBits(out[1]) = HighBits(arg) /\ out[1] # arg

---------------------------------------------------------------------------
(* Claims about the model mixin, under SpecModel *)

\* C5: with the default queryset, filter_h3d_around with k_distance 1 (the
\* ranges of the compacted ring) selects the records that the calls with
\* k_distance 0 around each cell of the uncompacted ring select together.
C5_CompactionKeepsSelection ==
    (call.kind = "filter" /\ call.k_distance = 1 /\ call.queryset = None)
        => found = UNION {filter_h3d_around(rows, {c}, None) : c \in call.ring}

C5_Witness ==
    /\ call.kind = "filter" /\ call.k_distance = 1 /\ call.queryset = None
    /\ call.res = 15
    /\ compact(call.ring) # call.ring
    /\ found = {1, 2}
    /\ rows[1].h3d # rows[2].h3d

\* The index the coordinates lat, lon of a row stand for
ExpectedIndex(lat, lon) ==
    IF lat = None \/ lon = None \/ (lat = Some(0) /\ lon = Some(0))
    THEN None
    ELSE Some(Word({59, 45, 47, 49}, 0, 15,
                   DigitOf(ValueOf(lat)), DigitOf(ValueOf(lon))))

\* C6 as claimed: after any creates and saves, whatever their update
\* fields, every row's h3d column is the resolution 15 distilled index of
\* the row's coordinates, and null when there are none or they are (0, 0).
C6_StoredIndexInSync ==
    \A pk \in DOMAIN rows :
        rows[pk].h3d = ExpectedIndex(rows[pk].lat, rows[pk].lon)

\* C10 as claimed: every record filter_h3d_around returns for a queryset
\* other than None is a record of that queryset.
C10_ConfinedToQueryset ==
    (call.kind = "filter" /\ call.queryset # None)
        => found \subseteq ValueOf(call.queryset)

=============================================================================
